---- MODULE Spec2Model ----
(***************************************************************************)
(* Model of SpaceContentGeneral/Misc/ScriptInit.py: the three script       *)
(* entry points goto, setBaseStat and desync, run against the host's       *)
(* entity/component interface (manager, avatar, character, Transform).     *)
(*                                                                         *)
(* Numbers.  Coordinates and random values are binary floating-point       *)
(* numbers.  The model keeps the format and scales its width down: a       *)
(* number is an integer count of units of 1/Scale, Scale = 2^MantBits, and *)
(* a number is representable when its magnitude is m * 2^e with            *)
(* m < 2^MantBits.  random.random() yields k/Scale, 0 <= k < Scale (in     *)
(* CPython k/2^53 with a 53-bit significand).  An addition is the exact    *)
(* sum rounded to the nearest representable number, ties to even.          *)
(***************************************************************************)
EXTENDS Integers, Sequences, FiniteSets

VARIABLES
    transform,   \* the avatar's Transform component: attached, Translation, pending
    character,   \* the character's base stats: stat type -> value
    sysPath,     \* sys.path, the interpreter's module search path
    last         \* record of the most recent call: what was called, the values the
                 \* random source returned, the host calls made and how it ended

vars == <<transform, character, sysPath, last>>

----------------------------------------------------------------------------
(* Bounds *)

MantBits == 3          \* bits of significand of the scaled-down float format
MaxStatValue == 1      \* stat values range over 0..MaxStatValue
MaxPathAppends == 2    \* desync is not called once sys.path holds this many added entries

----------------------------------------------------------------------------
(* Floating point *)

RECURSIVE Pow2(_)
Pow2(n) == IF n = 0 THEN 1 ELSE 2 * Pow2(n - 1)

Scale == Pow2(MantBits)
One == Scale

\* the spacing of representable numbers at magnitude n
RECURSIVE Ulp(_)
Ulp(n) == IF n < Scale THEN 1 ELSE 2 * Ulp(n \div 2)

\* round a magnitude to nearest, ties to even
RoundMag(n) ==
    LET u == Ulp(n)
        q == n \div u
        r == n % u
    IN  IF 2 * r > u \/ (2 * r = u /\ q % 2 = 1) THEN (q + 1) * u ELSE q * u

Round(n) == IF n < 0 THEN -RoundMag(-n) ELSE RoundMag(n)

\* a + b of two floats
FloatAdd(a, b) == Round(a + b)

----------------------------------------------------------------------------
(* Inputs *)

CoordVals == {-One, One, Scale * One}
RandVals == {0, 1, Scale - 1}
StagedVals == {<<One, 0>>, <<0, 2 * One>>}
ValidStatTypes == {"T1", "T2"}
StatTypes == ValidStatTypes \cup {"Bad"}
StatValues == 0..MaxStatValue
LibPath == "C:\\Program Files (x86)\\IronPython 2.7.1\\Lib"

----------------------------------------------------------------------------
(* The host interface.  A context c carries the host state through one     *)
(* script call: the Transform, the character, sys.path, the values the     *)
(* random source will return next, the host calls made so far, and the     *)
(* exception raised, if any.                                               *)

Context(rnd) ==
    [transform |-> transform, character |-> character, path |-> sysPath,
     rnd |-> rnd, calls |-> <<>>, raised |-> "none"]

\* manager.GetComponent(avatar, Transform.TypeId)
GetComponent(c) ==
    IF c.transform.attached
    THEN [c EXCEPT !.calls = Append(@, <<"GetComponent", "Transform">>)]
    ELSE [c EXCEPT !.calls = Append(@, <<"GetComponent", "Transform">>),
                   !.raised = "ComponentNotFound"]

\* component.SetTranslation(x, y): stages a pending value
SetTranslation(c, x, y) ==
    [c EXCEPT !.transform.pending = <<x, y>>,
              !.calls = Append(@, <<"SetTranslation", "Transform", x, y>>)]

\* component.ApplyTranslation(): commits the most recently staged value
ApplyTranslation(c) ==
    [c EXCEPT !.transform.Translation = c.transform.pending,
              !.calls = Append(@, <<"ApplyTranslation", "Transform">>)]

\* character.SetBaseValue(type, value)
SetBaseValue(c, type, value) ==
    IF type \in ValidStatTypes
    THEN [c EXCEPT !.character[type] = value,
                   !.calls = Append(@, <<"SetBaseValue", "character", type, value>>)]
    ELSE [c EXCEPT !.calls = Append(@, <<"SetBaseValue", "character", type, value>>),
                   !.raised = "InvalidStatType"]

\* random.random(): the value returned, and the context after the draw
RandomValue(c) == Head(c.rnd)
RandomDraw(c) ==
    [c EXCEPT !.rnd = Tail(@), !.calls = Append(@, <<"random", "random">>)]

----------------------------------------------------------------------------
(* The script *)

\* goto that stages the target and never applies it
goto_NoApply(c, x, y) ==
    LET c1 == GetComponent(c)
    IN  IF c1.raised # "none" THEN c1 ELSE SetTranslation(c1, x, y)

\* goto that stages the target on a component held from before, and only
\* then resolves the component
goto_StageFirst(c, x, y) ==
    LET c1 == GetComponent(SetTranslation(c, x, y))
    IN  IF c1.raised # "none" THEN c1 ELSE ApplyTranslation(c1)

\* goto that applies before it stages
goto_ApplyFirst(c, x, y) ==
    LET c1 == GetComponent(c)
    IN  IF c1.raised # "none" THEN c1
        ELSE SetTranslation(ApplyTranslation(c1), x, y)

\* goto that stages one axis at a time
goto_AxisByAxis(c, x, y) ==
    LET c1 == GetComponent(c)
    IN  IF c1.raised # "none" THEN c1
        ELSE ApplyTranslation(
                 SetTranslation(SetTranslation(c1, x, c1.transform.Translation[2]), x, y))

goto(c, x, y) ==
    LET c1 == GetComponent(c)
    IN  IF c1.raised # "none" THEN c1
        ELSE ApplyTranslation(SetTranslation(c1, x, y))

\* setBaseStat that adds the value to the base value
setBaseStat_Adds(c, type, value) ==
    SetBaseValue(c, type,
                 IF type \in ValidStatTypes THEN c.character[type] + value ELSE value)

\* setBaseStat that sets every base stat
setBaseStat_AllStats(c, type, value) ==
    LET c1 == SetBaseValue(c, type, value)
    IN  IF c1.raised # "none" THEN c1
        ELSE [c1 EXCEPT !.character = [t \in ValidStatTypes |-> value]]

setBaseStat(c, type, value) == SetBaseValue(c, type, value)

\* desync with the offset centred on the current position: 2 * random() - 1
desync_Centred(c) ==
    LET c1 == [c EXCEPT !.path = Append(@, LibPath)]
        c2 == GetComponent(c1)
    IN  IF c2.raised # "none" THEN c2
        ELSE LET translation == c2.transform.Translation
                 r1 == RandomValue(c2)
                 c3 == RandomDraw(c2)
                 r2 == RandomValue(c3)
                 c4 == RandomDraw(c3)
             IN  goto(c4, FloatAdd(translation[1], 2 * r1 - One),
                          FloatAdd(translation[2], 2 * r2 - One))

\* desync that moves a component held from before, without resolving it
desync_StaleComponent(c) ==
    LET c1 == [c EXCEPT !.path = Append(@, LibPath)]
        translation == c1.transform.Translation
        r1 == RandomValue(c1)
        c3 == RandomDraw(c1)
        r2 == RandomValue(c3)
        c4 == RandomDraw(c3)
    IN  ApplyTranslation(SetTranslation(c4, FloatAdd(translation[1], r1),
                                            FloatAdd(translation[2], r2)))

\* desync that evaluates the Y argument first
desync_Swapped(c) ==
    LET c1 == [c EXCEPT !.path = Append(@, LibPath)]
        c2 == GetComponent(c1)
    IN  IF c2.raised # "none" THEN c2
        ELSE LET translation == c2.transform.Translation
                 r1 == RandomValue(c2)
                 c3 == RandomDraw(c2)
                 r2 == RandomValue(c3)
                 c4 == RandomDraw(c3)
             IN  goto(c4, FloatAdd(translation[1], r2), FloatAdd(translation[2], r1))

desync(c) ==
    LET c1 == [c EXCEPT !.path = Append(@, LibPath)]
        c2 == GetComponent(c1)
    IN  IF c2.raised # "none" THEN c2
        ELSE LET translation == c2.transform.Translation
                 r1 == RandomValue(c2)
                 c3 == RandomDraw(c2)
                 r2 == RandomValue(c3)
                 c4 == RandomDraw(c3)
             IN  goto(c4, FloatAdd(translation[1], r1), FloatAdd(translation[2], r2))

----------------------------------------------------------------------------
(* State machine *)

\* the record of a call that ended in context c
Record(op, args, rnd, c) ==
    [op |-> op, args |-> args, draws |-> rnd, calls |-> c.calls, raised |-> c.raised]

Init ==
    /\ transform = [attached |-> TRUE, Translation |-> <<0, 0>>, pending |-> <<0, 0>>]
    /\ character = [t \in ValidStatTypes |-> 0]
    /\ sysPath = <<>>
    /\ last = [op |-> "none", args |-> <<>>, draws |-> <<>>,
               calls |-> <<>>, raised |-> "none"]

CallGoto ==
    \E x \in CoordVals, y \in CoordVals :
        LET c == goto(Context(<<>>), x, y)
        IN  /\ transform' = c.transform
            /\ character' = c.character
            /\ sysPath' = c.path
            /\ last' = Record("goto", <<x, y>>, <<>>, c)

CallSetBaseStat ==
    \E type \in StatTypes, value \in StatValues :
        LET c == setBaseStat(Context(<<>>), type, value)
        IN  /\ transform' = c.transform
            /\ character' = c.character
            /\ sysPath' = c.path
            /\ last' = Record("setBaseStat", <<type, value>>, <<>>, c)

\* r1 and r2 are the values the random source returns next, in this order
CallDesync ==
    /\ Len(sysPath) < MaxPathAppends
    /\ \E r1 \in RandVals, r2 \in RandVals :
        LET c == desync(Context(<<r1, r2>>))
        IN  /\ transform' = c.transform
            /\ character' = c.character
            /\ sysPath' = c.path
            /\ last' = Record("desync", <<>>, <<r1, r2>>, c)

\* the host stages a translation on the avatar's Transform without applying it
HostStage ==
    /\ transform.attached
    /\ \E p \in StagedVals :
        /\ transform' = [transform EXCEPT !.pending = p]
        /\ last' = [op |-> "host", args |-> <<>>, draws |-> <<>>,
                    calls |-> <<>>, raised |-> "none"]
    /\ UNCHANGED <<character, sysPath>>

\* the host removes the Transform from the avatar, or gives it back
HostSetAttached ==
    /\ \E b \in BOOLEAN :
        /\ b # transform.attached
        /\ transform' = [transform EXCEPT !.attached = b]
    /\ last' = [op |-> "host", args |-> <<>>, draws |-> <<>>,
                calls |-> <<>>, raised |-> "none"]
    /\ UNCHANGED <<character, sysPath>>

Next ==
    \/ CallGoto
    \/ CallSetBaseStat
    \/ CallDesync
    \/ HostStage
    \/ HostSetAttached

Spec == Init /\ [][Next]_vars

----------------------------------------------------------------------------
(* Properties *)

Translation == transform.Translation

\* how many of the host calls of one script call went to `fn`
NumCalls(calls, fn) == Cardinality({i \in DOMAIN calls : calls[i][1] = fn})

Returned == last.raised = "none"

\* C1: whenever the avatar's Transform resolves, goto(x, y) returns and the
\* committed translation is then (x, y) exactly, whatever was committed or
\* staged before the call.
C1_GotoCommitsTarget ==
    [][(last'.op = "goto" /\ transform.attached)
          => (last'.raised = "none" /\ transform'.Translation = last'.args)]_vars

C1_Witness ==
    /\ last.op = "goto" /\ Returned
    /\ last.args = <<Scale * One, -One>>
    /\ Translation = <<Scale * One, -One>>

\* C2: when the Transform does not resolve, goto(x, y) ends with
\* ComponentNotFound and neither the committed nor the staged translation
\* (nor anything else) differs from its value before the call.
C2_GotoFailureChangesNothing ==
    [][(last'.op = "goto" /\ ~transform.attached)
          => /\ last'.raised = "ComponentNotFound"
             /\ transform' = transform
             /\ character' = character
             /\ sysPath' = sysPath]_vars

C2_Witness ==
    /\ last.op = "goto" /\ last.raised = "ComponentNotFound"
    /\ last.args = <<One, One>>
    /\ Translation # last.args /\ transform.pending # last.args

\* C3: for a stat type T of the host's valid domain, setBaseStat(T, V) returns
\* and a read of the character's base stat T then yields V, whatever T held
\* before.
C3_SetBaseStatReadBack ==
    [][(last'.op = "setBaseStat" /\ last'.args[1] \in ValidStatTypes)
          => (last'.raised = "none" /\ character'[last'.args[1]] = last'.args[2])]_vars

C3_Witness ==
    /\ last.op = "setBaseStat" /\ Returned
    /\ last.args = <<"T2", 0>>
    /\ character["T1"] = MaxStatValue /\ character["T2"] = 0

\* C4, as the claim states it: desync() from (a, b) commits (a + dx, b + dy)
\* with 0 <= dx < 1 and 0 <= dy < 1: neither coordinate decreases and
\* neither grows by 1 or more.
C4_DesyncOffsetBelowOne ==
    [][(last'.op = "desync" /\ transform.attached)
          => /\ last'.raised = "none"
             /\ \A i \in 1..2 :
                  /\ last'.draws[i] \in 0..(One - 1)
                  /\ transform'.Translation[i] >= Translation[i]
                  /\ transform'.Translation[i] < Translation[i] + One]_vars

\* C4, amended: desync() from (a, b) commits the floating-point sums a + dx
\* and b + dy, each the exact sum rounded to the nearest representable
\* number; neither coordinate decreases and neither grows by more than 1.
C4_DesyncOffsetAtMostOne ==
    [][(last'.op = "desync" /\ transform.attached)
          => /\ last'.raised = "none"
             /\ \A i \in 1..2 :
                  /\ last'.draws[i] \in 0..(One - 1)
                  /\ transform'.Translation[i] = Round(Translation[i] + last'.draws[i])
                  /\ transform'.Translation[i] >= Translation[i]
                  /\ transform'.Translation[i] <= Translation[i] + One]_vars

C4_Witness ==
    /\ last.op = "desync" /\ Returned
    /\ last.draws = <<Scale - 1, 1>>
    /\ Translation = <<2 * One, One>>

\* C5: when the Transform does not resolve, desync() ends with
\* ComponentNotFound, the Transform is as it was before the call, and goto is
\* never reached: the only host call made is the failed lookup.
C5_DesyncFailureLeavesTranslation ==
    [][(last'.op = "desync" /\ ~transform.attached)
          => /\ last'.raised = "ComponentNotFound"
             /\ transform' = transform
             /\ last'.calls = << <<"GetComponent", "Transform">> >>]_vars

C5_Witness ==
    /\ last.op = "desync" /\ last.raised = "ComponentNotFound"
    /\ ~transform.attached
    /\ transform.pending # Translation

\* C6: a successful desync() consults the random source exactly twice; the
\* first value drawn goes to X and the second to Y, so that from (0, 0) with
\* draws r1 then r2 the committed translation is exactly (r1, r2).
C6_DesyncDrawOrder ==
    [][(last'.op = "desync" /\ last'.raised = "none")
          => /\ NumCalls(last'.calls, "random") = 2
             /\ transform'.Translation =
                  <<FloatAdd(Translation[1], last'.draws[1]),
                    FloatAdd(Translation[2], last'.draws[2])>>
             /\ (Translation = <<0, 0>> => transform'.Translation = last'.draws)]_vars

C6_Witness ==
    /\ last.op = "desync" /\ Returned
    /\ last.draws = <<1, Scale - 1>>
    /\ Translation = <<1, Scale - 1>>
    /\ Len(sysPath) = 1

\* C7: the module search path is extended with the library location at most
\* once, however many times desync() is called.
C7_PathExtendedAtMostOnce ==
    Cardinality({i \in DOMAIN sysPath : sysPath[i] = LibPath}) <= 1

\* C8: a successful goto(x, y) calls, in this order and on the one resolved
\* component, GetComponent, SetTranslation(x, y), ApplyTranslation(); the value
\* committed is the (x, y) of this call, never a value staged before it.
C8_GotoCallOrder ==
    [][(last'.op = "goto" /\ last'.raised = "none")
          => /\ last'.calls = << <<"GetComponent", "Transform">>,
                                 <<"SetTranslation", "Transform",
                                   last'.args[1], last'.args[2]>>,
                                 <<"ApplyTranslation", "Transform">> >>
             /\ transform'.pending = last'.args
             /\ transform'.Translation = transform'.pending
             /\ (transform.pending # last'.args
                   => transform'.Translation # transform.pending)]_vars

C8_Witness ==
    /\ last.op = "goto" /\ Returned
    /\ Len(last.calls) = 3
    /\ last.args = <<-One, One>>
    /\ transform.pending = <<-One, One>>

\* C9: one goto or desync call makes at most one SetTranslation and at most
\* one ApplyTranslation and no write to the character; one setBaseStat call
\* makes exactly one SetBaseValue and no write to the Transform; every call
\* has ended, returning or raising, in the state that follows it.
C9_OneWritePerField ==
    /\ last.raised \in {"none", "ComponentNotFound", "InvalidStatType"}
    /\ last.op \in {"goto", "desync"}
          => /\ NumCalls(last.calls, "SetTranslation") <= 1
             /\ NumCalls(last.calls, "ApplyTranslation") <= 1
             /\ NumCalls(last.calls, "SetBaseValue") = 0
    /\ last.op = "setBaseStat"
          => /\ NumCalls(last.calls, "SetBaseValue") = 1
             /\ NumCalls(last.calls, "SetTranslation") = 0
             /\ NumCalls(last.calls, "ApplyTranslation") = 0

C9_Witness ==
    /\ last.op = "desync" /\ Returned
    /\ NumCalls(last.calls, "SetTranslation") = 1
    /\ NumCalls(last.calls, "ApplyTranslation") = 1
    /\ NumCalls(last.calls, "GetComponent") = 2

\* C10: goto and desync leave every base stat unchanged; setBaseStat(T, V)
\* leaves the committed and the staged translation unchanged and every base
\* stat other than T unchanged.
C10_Frame ==
    [][/\ last'.op \in {"goto", "desync"} => character' = character
       /\ last'.op = "setBaseStat"
             => /\ transform' = transform
                /\ \A t \in ValidStatTypes :
                     t # last'.args[1] => character'[t] = character[t]]_vars

C10_Witness ==
    /\ last.op = "setBaseStat" /\ Returned
    /\ last.args = <<"T1", MaxStatValue>>
    /\ character["T2"] = 0 /\ character["T1"] = MaxStatValue
    /\ Translation = <<One, Scale * One>>
    /\ transform.pending # Translation

====
